---- MODULE Spec2Model ----
(***************************************************************************)
(* Model of proxy_relay.py: the startup self-test, the relay watchdog, the *)
(* accept loop and the per-client handler with its two relay threads.      *)
(*                                                                         *)
(* Byte strings are sequences of byte values 0..255.  The bytes that occur *)
(* are ASCII plus 0xFF, a byte that is never valid in UTF-8.               *)
(***************************************************************************)
EXTENDS Integers, Sequences, FiniteSets, TLC

\* ------------------------------------------------------------------ bounds
\* most client handlers the accept loop spawns in one run
MaxSessions == 2
\* most frames a relay thread receives in one direction of one session
MaxFrames == 2
\* most watchdog ticks in one run
MaxTicks == 2
\* most bytes a sendall that raises has written before it raised
MaxPartial == 1

\* ------------------------------------------------------------ byte strings
CRLF == <<13, 10>>
\* "\r\n\r\n"
SEP == <<13, 10, 13, 10>>
\* "200"
T200 == <<50, 48, 48>>
\* "HTTP"
THTTP == <<72, 84, 84, 80>>
\* "Proxy-Authorization: Basic "
AuthPrefix == <<80, 114, 111, 120, 121, 45, 65, 117, 116, 104, 111, 114, 105, 122, 97, 116, 105, 111, 110, 58, 32, 66, 97, 115, 105, 99, 32>>
\* "ABCDEFGHIJKLMNOPQRSTUVWXYZabcdefghijklmnopqrstuvwxyz0123456789+/"
B64Chars == <<65, 66, 67, 68, 69, 70, 71, 72, 73, 74, 75, 76, 77, 78, 79, 80, 81, 82, 83, 84, 85, 86, 87, 88, 89, 90, 97, 98, 99, 100, 101, 102, 103, 104, 105, 106, 107, 108, 109, 110, 111, 112, 113, 114, 115, 116, 117, 118, 119, 120, 121, 122, 48, 49, 50, 51, 52, 53, 54, 55, 56, 57, 43, 47>>
\* "GET / HTTP/1.1\r\nHost: x\r\n\r\n"
Req1 == <<71, 69, 84, 32, 47, 32, 72, 84, 84, 80, 47, 49, 46, 49, 13, 10, 72, 111, 115, 116, 58, 32, 120, 13, 10, 13, 10>>
\* "u" and "p", the configured username and password; <<>> is an absent one
UserU == <<117>>
PassP == <<112>>
None == <<>>

\* s[i..] and the first place of pat in s (0 when pat is not in s)
Drop(s, n) == SubSeq(s, n + 1, Len(s))
Take(s, n) == SubSeq(s, 1, n)
Matches(s, pat, i) == i + Len(pat) - 1 <= Len(s) /\ SubSeq(s, i, i + Len(pat) - 1) = pat
Find(s, pat) ==
  IF \E i \in 1..Len(s) : Matches(s, pat, i)
  THEN CHOOSE i \in 1..Len(s) : Matches(s, pat, i) /\ \A j \in 1..(i - 1) : ~Matches(s, pat, j)
  ELSE 0
\* Python's  pat in s
Contains(s, pat) == Find(s, pat) # 0

\* bytes.decode(errors='ignore'): bytes that are not valid UTF-8 are dropped.
\* On the model's alphabet (ASCII and 0xFF) the invalid bytes are those >= 128.
IsAscii(b) == b < 128
DecodeIgnore(data) == SelectSeq(data, IsAscii)
\* bytes.decode() (strict) raises on a byte that is not valid UTF-8
DecodeRaises(data) == \E i \in 1..Len(data) : ~IsAscii(data[i])
\* str.encode(): every code point below 128 is one byte of the same value
Encode(str) == [i \in 1..Len(str) |-> str[i] % 256]

\* base64.b64encode
B64Char(n) == B64Chars[n + 1]
RECURSIVE B64Encode(_)
B64Encode(b) ==
  IF Len(b) = 0 THEN <<>>
  ELSE IF Len(b) = 1 THEN
    LET n == b[1] * 65536
    IN  <<B64Char(n \div 262144), B64Char((n \div 4096) % 64), 61, 61>>
  ELSE IF Len(b) = 2 THEN
    LET n == b[1] * 65536 + b[2] * 256
    IN  <<B64Char(n \div 262144), B64Char((n \div 4096) % 64), B64Char((n \div 64) % 64), 61>>
  ELSE
    LET n == b[1] * 65536 + b[2] * 256 + b[3]
    IN  <<B64Char(n \div 262144), B64Char((n \div 4096) % 64), B64Char((n \div 64) % 64), B64Char(n % 64)>>
        \o B64Encode(Drop(b, 3))

\* RELAY_USER and RELAY_PASS: both present and non-empty
HasCreds(c) == c.user # None /\ c.pass # None
\* f"Proxy-Authorization: Basic {auth_enc}\r\n", or None without credentials
AuthHeader(c) ==
  IF HasCreds(c) THEN AuthPrefix \o B64Encode(c.user \o <<58>> \o c.pass) \o CRLF ELSE None

\* --------------------------------------------------------- relay loop body
\* RelayData with the decode/encode round trip done on every client frame
RelayData_reencode(data, auth, direction) ==
  IF direction = "Client->Relay"
  THEN [data |-> Encode(DecodeIgnore(data)), auth |-> auth]
  ELSE [data |-> data, auth |-> auth]

\* RelayData with the test of direction left out of line 156
RelayData_anydir(data, auth, direction) ==
  IF auth # None
  THEN LET data_str == DecodeIgnore(data)
           i == Find(data_str, SEP)
       IN  IF i # 0
           THEN LET headers == Take(data_str, i - 1) \o CRLF \o auth
                    rest == Drop(data_str, i + Len(SEP) - 1)
                IN  [data |-> Encode(headers \o SEP \o rest), auth |-> None]
           ELSE [data |-> data, auth |-> auth]
  ELSE [data |-> data, auth |-> auth]

\* One iteration of relay() between recv and sendall: the bytes handed to
\* sendall and the value auth_header has afterwards.
RelayData(data, auth, direction) ==
  IF auth # None /\ direction = "Client->Relay"
  THEN LET data_str == DecodeIgnore(data)
           i == Find(data_str, SEP)
       IN  IF i # 0
           THEN LET headers == Take(data_str, i - 1) \o CRLF \o auth
                    rest == Drop(data_str, i + Len(SEP) - 1)
                IN  [data |-> Encode(headers \o SEP \o rest), auth |-> None]
           ELSE [data |-> data, auth |-> auth]
  ELSE [data |-> data, auth |-> auth]

\* ------------------------------------------------------------- environment
\* what the network hands to one recv() on the client side of a session
\*   Req1; "a\r\n\r" and "\n" (a separator split over two reads);
\*   "a\r\n\r\n" then a 0xFF body byte
ClientFrames == {Req1, <<97, 13, 10, 13>>, <<10>>, <<97, 13, 10, 13, 10, 255>>}
\*   "H\r\n\r\n" and "x" from the relay
RelayFrames == {<<72, 13, 10, 13, 10>>, <<120>>}
\* the upstream proxy's answer to CONNECT, as the chunks successive recv()
\* calls return: 200, 407, a 200 split over two reads, a 200 with a byte that
\* is not UTF-8, or nothing before the proxy closes
Ok200 == <<72, 84, 84, 80, 47, 49, 46, 49, 32, 50, 48, 48, 32, 79, 75, 13, 10, 13, 10>>
R407 == <<72, 84, 84, 80, 47, 49, 46, 49, 32, 52, 48, 55, 32, 80, 114, 111, 120, 121, 32, 65, 117, 116, 104, 101, 110, 116, 105, 99, 97, 116, 105, 111, 110, 32, 82, 101, 113, 117, 105, 114, 101, 100, 13, 10, 13, 10>>
ConnectReplies ==
  { <<Ok200>>, <<R407>>, <<Take(Ok200, 9), Drop(Ok200, 9)>>, <<Ok200 \o <<255>> >>, <<>> }
\* what the relay answers to the probe request: a status line, noise, nothing
ProbeReplies == { Ok200, <<120>>, <<>> }
\* the value of a reply slot before any reply was read
NoReply == <<-1>>

RECURSIVE Flatten(_)
Flatten(chunks) == IF chunks = <<>> THEN <<>> ELSE Head(chunks) \o Flatten(Tail(chunks))
\* recv(4096) on a reply: the first chunk, b"" when the peer closed
FirstRecv(reply) == IF reply = <<>> THEN <<>> ELSE Head(reply)
RestAfterRecv(reply) == IF reply = <<>> THEN <<>> ELSE Flatten(Tail(reply))

\* SYS_PROXY_HOST (an upstream proxy was detected), USE_TLS, RELAY_USER, RELAY_PASS
Configs == [proxy : BOOLEAN, tls : BOOLEAN, user : {None, UserU}, pass : {None, PassP}]

Sessions == 1..MaxSessions

VARIABLES
  cfg,        \* the module-level configuration, set once
  mainpc,     \* main thread: "selftest", "exited", "accept", "stopped"
  exitStatus, \* process exit status, -1 while running
  selftest,   \* the startup test_relay(): "pending", "passed", "failed"
  listener,   \* listening socket: "none", "bound", "closed"
  wdStarted,  \* the watchdog thread was started
  probe,      \* the running test_relay() call
  reports,    \* results of the watchdog's test_relay() calls, in order
  expected,   \* for each of those calls, what its own network events call for
  accepted,   \* clients accepted so far
  sess        \* per client handler: its locals, sockets and relay threads

vars == <<cfg, mainpc, exitStatus, selftest, listener, wdStarted, probe, reports, expected, accepted, sess>>
procVars == <<mainpc, exitStatus, selftest, listener, wdStarted, probe, reports, expected>>

\* ---------------------------------------------------------- handle_client
\* a handler that was not spawned yet
IdleSession ==
  [pc |-> "idle", csock |-> "none", ssock |-> "none", cCloses |-> 0, sCloses |-> 0,
   sent |-> <<>>, connReply |-> NoReply, connLeft |-> <<>>, tlsTried |-> FALSE,
   auth_header |-> None, t1 |-> "none", t2 |-> "none",
   cRead |-> <<>>, rWritten |-> <<>>, rRead |-> <<>>, cWritten |-> <<>>]

\* f"CONNECT {RELAY_HOST}:{RELAY_PORT} HTTP/1.1\r\nHost: ...\r\nConnection: close\r\n"
\* with host:port written "r:1"
ConnectLine == <<67, 79, 78, 78, 69, 67, 84, 32, 114, 58, 49, 32, 72, 84, 84, 80, 47, 49, 46, 49, 13, 10, 72, 111, 115, 116, 58, 32, 114, 58, 49, 13, 10, 67, 111, 110, 110, 101, 99, 116, 105, 111, 110, 58, 32, 99, 108, 111, 115, 101, 13, 10>>
ConnectReq(c) == ConnectLine \o AuthHeader(c) \o CRLF

\* Abort without the server_sock.close() of line 181
Abort_leak(r) == [r EXCEPT !.pc = "done", !.csock = "closed", !.cCloses = @ + 1]

\* the except clause: client_sock.close(), and server_sock.close() when
\* server_sock is a local
Abort(r) ==
  [r EXCEPT !.pc = "done", !.csock = "closed", !.cCloses = @ + 1,
            !.ssock = IF r.ssock = "none" THEN "none" ELSE "closed",
            !.sCloses = IF r.ssock = "none" THEN @ ELSE @ + 1]

\* auth_header is computed and both relay threads are started; the handler
\* then waits in t1.join()
StartRelay(r, c) ==
  [r EXCEPT !.pc = "join", !.auth_header = AuthHeader(c), !.t1 = "run", !.t2 = "run"]

\* where the handler goes once the socket is connected
AfterConnect(r, c) ==
  IF c.proxy /\ c.tls THEN [r EXCEPT !.pc = "connect_req"]
  ELSE IF c.tls THEN [r EXCEPT !.pc = "tls"]
  ELSE StartRelay(r, c)

\* listener.accept() returns a client and a handler thread is started
Accept(max) ==
  /\ mainpc = "accept"
  /\ accepted < max
  /\ accepted' = accepted + 1
  /\ sess' = [sess EXCEPT ![accepted + 1] = [@ EXCEPT !.pc = "connect", !.csock = "open"]]
  /\ UNCHANGED <<cfg, procVars>>

\* server_sock = socket.socket(...); server_sock.connect(...).  out is "ok",
\* "refused" (connect raises) or "nosock" (socket.socket raises: server_sock
\* is never bound)
SessConnect(s, out) ==
  /\ sess[s].pc = "connect"
  /\ LET r == [sess[s] EXCEPT !.ssock = "open"]
     IN  sess' = [sess EXCEPT ![s] =
           IF out = "ok" THEN AfterConnect(r, cfg)
           ELSE IF out = "refused" THEN Abort(r) ELSE Abort(sess[s])]
  /\ UNCHANGED <<cfg, procVars, accepted>>

\* sendall(connect_req) and resp = recv(4096); resp is only printed
SessConnectReq(s, ok, reply) ==
  /\ sess[s].pc = "connect_req"
  /\ sess' = [sess EXCEPT ![s] =
       IF ok
       THEN [@ EXCEPT !.pc = "tls", !.sent = ConnectReq(cfg),
                      !.connReply = FirstRecv(reply), !.connLeft = RestAfterRecv(reply)]
       ELSE Abort(@)]
  /\ UNCHANGED <<cfg, procVars, accepted>>

\* context.wrap_socket(server_sock, ..., do_handshake_on_connect=True)
SessTLS(s, ok) ==
  /\ sess[s].pc = "tls"
  /\ LET r == [sess[s] EXCEPT !.tlsTried = TRUE]
     IN  sess' = [sess EXCEPT ![s] = IF ok THEN StartRelay(r, cfg) ELSE Abort(r)]
  /\ UNCHANGED <<cfg, procVars, accepted>>

\* what one sendall(data) can have written: all of data, or when it raises any
\* of its first bytes, "there is no way to determine how much data, if any, was
\* successfully sent"
Written(data) == {Len(data)} \cup {k \in 0..MaxPartial : k < Len(data)}

\* ConsumeAuth with auth_header a module-level global shared by all handlers
ConsumeAuth_shared(all, s, auth) ==
  [t \in DOMAIN all |-> IF all[t].pc = "join" THEN [all[t] EXCEPT !.auth_header = auth] ELSE all[t]]

\* auth_header = None in relay(), a nonlocal of this handler
ConsumeAuth(all, s, auth) == [all EXCEPT ![s].auth_header = auth]

\* relay(client_sock, server_sock, "Client->Relay"): recv returns the frame f;
\* sendall writes k bytes of the data, all of them unless it raises
C2RForward(s, f, lim) ==
  /\ sess[s].t1 = "run"
  /\ Len(sess[s].cRead) < lim
  /\ LET out == RelayData(f, sess[s].auth_header, "Client->Relay")
     IN  \E k \in Written(out.data) :
           sess' = ConsumeAuth(
               [sess EXCEPT ![s].cRead = Append(@, f),
                            ![s].rWritten = IF k = 0 THEN @ ELSE Append(@, Take(out.data, k)),
                            ![s].t1 = IF k = Len(out.data) THEN "run" ELSE "done"],
               s, out.auth)
  /\ UNCHANGED <<cfg, procVars, accepted>>

\* recv on the client returns b"" or raises: break, the thread ends
C2RStop(s) ==
  /\ sess[s].t1 = "run"
  /\ sess' = [sess EXCEPT ![s].t1 = "done"]
  /\ UNCHANGED <<cfg, procVars, accepted>>

\* relay(server_sock, client_sock, "Relay->Client")
R2CForward(s, f, lim) ==
  /\ sess[s].t2 = "run"
  /\ Len(sess[s].rRead) < lim
  /\ LET out == RelayData(f, sess[s].auth_header, "Relay->Client")
     IN  \E k \in Written(out.data) :
           sess' = ConsumeAuth(
               [sess EXCEPT ![s].rRead = Append(@, f),
                            ![s].cWritten = IF k = 0 THEN @ ELSE Append(@, Take(out.data, k)),
                            ![s].t2 = IF k = Len(out.data) THEN "run" ELSE "done"],
               s, out.auth)
  /\ UNCHANGED <<cfg, procVars, accepted>>

\* recv on the relay returns b"" or raises: break, the thread ends
R2CStop(s) ==
  /\ sess[s].t2 = "run"
  /\ sess' = [sess EXCEPT ![s].t2 = "done"]
  /\ UNCHANGED <<cfg, procVars, accepted>>

\* SessJoin without the t2.join() of line 174
SessJoin_early(s) ==
  /\ sess[s].pc = "join"
  /\ sess[s].t1 = "done"
  /\ sess' = [sess EXCEPT ![s] =
       [@ EXCEPT !.pc = "done", !.csock = "closed", !.cCloses = @ + 1,
                 !.ssock = "closed", !.sCloses = @ + 1]]
  /\ UNCHANGED <<cfg, procVars, accepted>>

\* t1.join(); t2.join(); client_sock.close(); server_sock.close()
SessJoin(s) ==
  /\ sess[s].pc = "join"
  /\ sess[s].t1 = "done"
  /\ sess[s].t2 = "done"
  /\ sess' = [sess EXCEPT ![s] =
       [@ EXCEPT !.pc = "done", !.csock = "closed", !.cCloses = @ + 1,
                 !.ssock = "closed", !.sCloses = @ + 1]]
  /\ UNCHANGED <<cfg, procVars, accepted>>

SessionStep(s, CF, RF, CR, lim) ==
  \/ \E out \in {"ok", "refused", "nosock"} : SessConnect(s, out)
  \/ \E ok \in BOOLEAN, reply \in CR : SessConnectReq(s, ok, reply)
  \/ \E ok \in BOOLEAN : SessTLS(s, ok)
  \/ \E f \in CF : C2RForward(s, f, lim)
  \/ C2RStop(s)
  \/ \E f \in RF : R2CForward(s, f, lim)
  \/ R2CStop(s)
  \/ SessJoin(s)

\* ------------------------------------------------------------- test_relay
\* no test_relay() call is running; sock is what the last call left behind
IdleProbe(sock) == [pc |-> "idle", who |-> "none", sock |-> sock, sent |-> <<>>, net |-> <<>>]
\* test_relay() was called by who: "startup" (line 105) or "watchdog"
NewProbe(who) == [pc |-> "connect", who |-> who, sock |-> "none", sent |-> <<>>, net |-> <<>>]

\* ConnectRefused with the reply not looked at, as handle_client does
ConnectRefused_never(resp) == FALSE

\* "200" not in resp
ConnectRefused(resp) == ~Contains(resp, T200)
\* "HTTP" in resp
ProbeVerdict(resp) == Contains(resp, THTTP)

\* f"GET / HTTP/1.1\r\nHost: ifconfig.me\r\nConnection: close\r\n\r\n"
ProbeReq == <<71, 69, 84, 32, 47, 32, 72, 84, 84, 80, 47, 49, 46, 49, 13, 10, 72, 111, 115, 116, 58, 32, 105, 102, 99, 111, 110, 102, 105, 103, 46, 109, 101, 13, 10, 67, 111, 110, 110, 101, 99, 116, 105, 111, 110, 58, 32, 99, 108, 111, 115, 101, 13, 10, 13, 10>>

\* What the events of one test_relay() call ask for, whatever came before it:
\* healthy iff every step the configuration requires succeeded, the CONNECT
\* reply (when one is read) is text holding "200", and the probe reply holds
\* "HTTP".  An event is <<step, ok, bytes received>>.
StepsOf(c) ==
  <<"connect">> \o (IF c.proxy /\ c.tls THEN <<"connect_req">> ELSE <<>>)
                \o (IF c.tls THEN <<"tls">> ELSE <<>>) \o <<"request">>
Healthy(c, net) ==
  /\ Len(net) = Len(StepsOf(c))
  /\ \A i \in 1..Len(net) :
       /\ net[i][1] = StepsOf(c)[i]
       /\ net[i][2]
       /\ net[i][1] = "connect_req" =>
            \A b \in {net[i][3][j] : j \in 1..Len(net[i][3])} : b < 128
       /\ net[i][1] = "connect_req" =>
            \E j \in 1..(Len(net[i][3]) - 2) : SubSeq(net[i][3], j, j + 2) = T200
       /\ net[i][1] = "request" =>
            \E j \in 1..(Len(net[i][3]) - 3) : SubSeq(net[i][3], j, j + 3) = THTTP

\* Return without the sys.exit(1) of line 107
Return_noexit(result, sock, net) ==
  /\ probe' = IdleProbe(sock)
  /\ IF probe.who = "startup"
     THEN /\ mainpc' = "accept"
          /\ listener' = "bound"
          /\ wdStarted' = TRUE
          /\ selftest' = IF result THEN "passed" ELSE "failed"
          /\ UNCHANGED <<exitStatus, reports, expected>>
     ELSE /\ reports' = Append(reports, result)
          /\ expected' = Append(expected, Healthy(cfg, net))
          /\ UNCHANGED <<mainpc, exitStatus, selftest, listener, wdStarted>>

\* Return where a failed probe of the watchdog ends the process as a failed
\* probe at startup does
Return_fatal(result, sock, net) ==
  /\ probe' = IdleProbe(sock)
  /\ mainpc' = IF result THEN (IF probe.who = "startup" THEN "accept" ELSE mainpc) ELSE "exited"
  /\ exitStatus' = IF result THEN exitStatus ELSE 1
  /\ listener' = IF result /\ probe.who = "startup" THEN "bound" ELSE listener
  /\ wdStarted' = IF probe.who = "startup" THEN result ELSE (wdStarted /\ result)
  /\ IF probe.who = "startup"
     THEN /\ selftest' = IF result THEN "passed" ELSE "failed"
          /\ UNCHANGED <<reports, expected>>
     ELSE /\ reports' = Append(reports, result)
          /\ expected' = Append(expected, Healthy(cfg, net))
          /\ UNCHANGED selftest

\* test_relay() returns result: line 105-107 and 186-201 at startup (exit 1, or
\* bind, listen and start the watchdog), line 197-199 in the watchdog
Return(result, sock, net) ==
  /\ probe' = IdleProbe(sock)
  /\ IF probe.who = "startup"
     THEN /\ mainpc' = IF result THEN "accept" ELSE "exited"
          /\ exitStatus' = IF result THEN exitStatus ELSE 1
          /\ selftest' = IF result THEN "passed" ELSE "failed"
          /\ listener' = IF result THEN "bound" ELSE listener
          /\ wdStarted' = result
          /\ UNCHANGED <<reports, expected>>
     ELSE /\ reports' = Append(reports, result)
          /\ expected' = Append(expected, Healthy(cfg, net))
          /\ UNCHANGED <<mainpc, exitStatus, selftest, listener, wdStarted>>

\* test_relay() goes on to its next step
Continue(pc, sock, sent, net) ==
  /\ probe' = [probe EXCEPT !.pc = pc, !.sock = sock, !.sent = sent, !.net = net]
  /\ UNCHANGED <<mainpc, exitStatus, selftest, listener, wdStarted, reports, expected>>

\* a socket test_relay() returns without closing: it stays open, unless the
\* runtime finalises the unreachable socket object
Unclosed(fin) == IF fin THEN "closed" ELSE "open"

\* sock = socket.create_connection(..., timeout=5)
ProbeConnect(ok) ==
  /\ probe.pc = "connect"
  /\ LET net == Append(probe.net, <<"connect", ok, <<>> >>)
     IN  IF ok
         THEN Continue(IF cfg.proxy /\ cfg.tls THEN "connect_req"
                       ELSE IF cfg.tls THEN "tls" ELSE "request", "open", probe.sent, net)
         ELSE Return(FALSE, "none", net)
  /\ UNCHANGED <<cfg, accepted, sess>>

\* sendall(connect_req); resp = recv(4096).decode(); if "200" not in resp: return False
ProbeConnectReq(ok, reply, fin) ==
  /\ probe.pc = "connect_req"
  /\ LET resp == FirstRecv(reply)
         net == Append(probe.net, <<"connect_req", ok, IF ok THEN resp ELSE <<>> >>)
     IN  IF ok /\ ~DecodeRaises(resp) /\ ~ConnectRefused(resp)
         THEN Continue("tls", "open", ConnectReq(cfg), net)
         ELSE Return(FALSE, Unclosed(fin), net)
  /\ UNCHANGED <<cfg, accepted, sess>>

\* sock = context.wrap_socket(sock, ...)
ProbeTLS(ok, fin) ==
  /\ probe.pc = "tls"
  /\ LET net == Append(probe.net, <<"tls", ok, <<>> >>)
     IN  IF ok
         THEN Continue("request", "open", probe.sent, net)
         ELSE Return(FALSE, Unclosed(fin), net)
  /\ UNCHANGED <<cfg, accepted, sess>>

\* sendall(http_req); resp = recv(4096).decode(errors='ignore'); sock.close();
\* return "HTTP" in resp
ProbeRequest(ok, reply, fin) ==
  /\ probe.pc = "request"
  /\ LET net == Append(probe.net, <<"request", ok, IF ok THEN reply ELSE <<>> >>)
     IN  IF ok
         THEN Return(ProbeVerdict(DecodeIgnore(reply)), "closed", net)
         ELSE Return(FALSE, Unclosed(fin), net)
  /\ UNCHANGED <<cfg, accepted, sess>>

\* relay_watchdog(): the next test_relay() call, time.sleep(10) after the last
WatchdogTick ==
  /\ wdStarted
  /\ probe.pc = "idle"
  /\ Len(reports) < MaxTicks
  /\ probe' = NewProbe("watchdog")
  /\ UNCHANGED <<cfg, mainpc, exitStatus, selftest, listener, wdStarted, reports, expected, accepted, sess>>

\* Interrupt with the handlers in flight torn down as well
Interrupt_kill ==
  /\ mainpc = "accept"
  /\ mainpc' = "stopped"
  /\ listener' = "closed"
  /\ sess' = [s \in Sessions |-> IF sess[s].pc \in {"idle", "done"} THEN sess[s] ELSE Abort(sess[s])]
  /\ UNCHANGED <<cfg, exitStatus, selftest, wdStarted, probe, reports, expected, accepted>>

\* KeyboardInterrupt in the accept loop: listener.close(); break
Interrupt ==
  /\ mainpc = "accept"
  /\ mainpc' = "stopped"
  /\ listener' = "closed"
  /\ UNCHANGED <<cfg, exitStatus, selftest, wdStarted, probe, reports, expected, accepted, sess>>

ProbeStep ==
  \/ \E ok \in BOOLEAN : ProbeConnect(ok)
  \/ \E ok \in BOOLEAN, reply \in ConnectReplies, fin \in BOOLEAN : ProbeConnectReq(ok, reply, fin)
  \/ \E ok \in BOOLEAN, fin \in BOOLEAN : ProbeTLS(ok, fin)
  \/ \E ok \in BOOLEAN, reply \in ProbeReplies, fin \in BOOLEAN : ProbeRequest(ok, reply, fin)

\* ---------------------------------------------------------- specifications
\* the process as the interpreter reaches line 105
Init ==
  /\ cfg \in Configs
  /\ mainpc = "selftest"
  /\ exitStatus = -1
  /\ selftest = "pending"
  /\ listener = "none"
  /\ wdStarted = FALSE
  /\ probe = NewProbe("startup")
  /\ reports = <<>>
  /\ expected = <<>>
  /\ accepted = 0
  /\ sess = [s \in Sessions |-> IdleSession]

\* the state once the self-test passed, the listener is bound and the watchdog
\* thread is started
Listening ==
  /\ cfg \in Configs
  /\ mainpc = "accept"
  /\ exitStatus = -1
  /\ selftest = "passed"
  /\ listener = "bound"
  /\ wdStarted = TRUE
  /\ probe = IdleProbe("closed")
  /\ reports = <<>>
  /\ expected = <<>>
  /\ accepted = 0
  /\ sess = [s \in Sessions |-> IdleSession]

\* bytes only session s carries: its client sends one request, "1\r\n\r\n" for
\* session 1, "2\r\n\r\n" for session 2, ...; its relay one answer, "A", "B", ...
IsoClientFrame(s) == <<48 + s>> \o SEP
IsoRelayFrame(s) == <<64 + s>>
Range(seq) == {seq[i] : i \in 1..Len(seq)}

\* the whole program
Next ==
  \/ ProbeStep
  \/ WatchdogTick
  \/ Interrupt
  \/ Accept(MaxSessions)
  \/ \E s \in Sessions : SessionStep(s, ClientFrames, RelayFrames, ConnectReplies, MaxFrames)
Spec == Init /\ [][Next]_vars

\* startup, watchdog and accept loop; the handlers it spawns do not run
NextProc == ProbeStep \/ WatchdogTick \/ Interrupt \/ Accept(MaxSessions)
SpecProc == Init /\ [][NextProc]_vars

\* one client, every frame
NextSession == Accept(1) \/ SessionStep(1, ClientFrames, RelayFrames, ConnectReplies, MaxFrames)
SpecSession == Listening /\ [][NextSession]_vars

\* several clients side by side, each end sending its own frame once and the
\* upstream proxy answering 200
NextIso ==
  \/ Accept(MaxSessions)
  \/ \E s \in Sessions :
       SessionStep(s, {IsoClientFrame(s)} \ Range(sess[s].cRead),
                   {IsoRelayFrame(s)} \ Range(sess[s].rRead), {<<Ok200>>}, MaxFrames)
\* with both credentials or none: one alone is read nowhere but in
\* "RELAY_USER and RELAY_PASS", where it counts as none
ListeningIso == Listening /\ (cfg.user = None <=> cfg.pass = None)
SpecIso == ListeningIso /\ [][NextIso]_vars

\* one client and the interrupt of the accept loop, before or after the accept
NextShutdown == NextSession \/ Interrupt
SpecShutdown == Listening /\ [][NextShutdown]_vars

\* the handler of session s with both peers silent: everything it does but
\* forward a frame, every way it fails or ends
QuietStep(s) ==
  \/ \E out \in {"ok", "refused", "nosock"} : SessConnect(s, out)
  \/ \E ok \in BOOLEAN : SessConnectReq(s, ok, <<Ok200>>)
  \/ \E ok \in BOOLEAN : SessTLS(s, ok)
  \/ C2RStop(s)
  \/ R2CStop(s)
  \/ SessJoin(s)
\* watchdog, accept loop and handlers side by side
NextContain ==
  \/ WatchdogTick
  \/ ProbeStep
  \/ Accept(MaxSessions)
  \/ \E s \in Sessions : QuietStep(s)
SpecContain == ListeningIso /\ [][NextContain]_vars

\* SpecSession where every step but the client's is taken once it can be: the
\* handler and relay threads are scheduled, the upstream proxy and the relay
\* answer or close.  The client may stay silent: client_sock has no timeout.
ServerSide(s) ==
  \/ \E out \in {"ok", "refused", "nosock"} : SessConnect(s, out)
  \/ \E ok \in BOOLEAN, reply \in ConnectReplies : SessConnectReq(s, ok, reply)
  \/ \E ok \in BOOLEAN : SessTLS(s, ok)
  \/ \E f \in RelayFrames : R2CForward(s, f, MaxFrames)
  \/ R2CStop(s)
  \/ SessJoin(s)
LiveSession == SpecSession /\ WF_vars(Accept(1)) /\ WF_vars(ServerSide(1))

\* ------------------------------------------------------------------ claims
\* the byte streams of a session, in the order read or written
ClientSent(s) == Flatten(sess[s].cRead)
ToRelay(s) == Flatten(sess[s].rWritten)
RelaySent(s) == Flatten(sess[s].rRead)
ToClient(s) == Flatten(sess[s].cWritten)
IsPrefix(a, b) == Len(a) <= Len(b) /\ Take(b, Len(a)) = a
\* "Proxy-Authorization: Basic dTpw", the credential line for user u, pass p
CredLine == <<80, 114, 111, 120, 121, 45, 65, 117, 116, 104, 111, 114, 105, 122, 97, 116, 105, 111, 110, 58, 32, 66, 97, 115, 105, 99, 32, 100, 84, 112, 119>>
\* frame with line and "\r\n" put in right before its first "\r\n\r\n"
Spliced(frame, line) ==
  LET i == Find(frame, SEP)
  IN  Take(frame, i + 1) \o line \o CRLF \o Drop(frame, i + 1)
Occurrences(str, pat) == Cardinality({i \in 1..Len(str) : Matches(str, pat, i)})
UP == cfg.user = UserU /\ cfg.pass = PassP

\* C1: with credentials u/p, when the first frame read from the client holds
\* "\r\n\r\n" and was forwarded whole, what the relay got is that frame with the
\* one line "Proxy-Authorization: Basic dTpw\r\n" put in before the first
\* "\r\n\r\n" and nothing else added.  Stated for frames of ASCII bytes, as
\* the claim's own example is.
C1_FirstFrameSplicedOnce ==
  \A s \in Sessions :
    (UP /\ Len(sess[s].cRead) = 1 /\ sess[s].t1 = "run" /\ Contains(sess[s].cRead[1], SEP)
        /\ ~DecodeRaises(sess[s].cRead[1]))
      => sess[s].rWritten = <<Spliced(sess[s].cRead[1], CredLine)>>

\* C2: with credentials u/p, once the relay has been sent a complete header
\* block, the credential line is in what it was sent exactly once, before the
\* first "\r\n\r\n"; and it is never there twice.
C2_CredentialExactlyOnce ==
  \A s \in Sessions :
    UP => /\ Occurrences(ToRelay(s), CredLine) <= 1
          /\ Contains(ToRelay(s), SEP) =>
               /\ Occurrences(ToRelay(s), CredLine) = 1
               /\ Find(ToRelay(s), CredLine) < Find(ToRelay(s), SEP)

\* C3 as stated: without credentials the bytes written to the relay are, in
\* every state, exactly the bytes read from the client so far.
C3_RelayStreamEqualsClientStream ==
  \A s \in Sessions : ~HasCreds(cfg) => ToRelay(s) = ClientSent(s)

\* C3 amended: without credentials the bytes written to the relay are always a
\* prefix of the bytes read from the client, and all of them while the
\* client->relay thread runs; only a sendall that raised leaves bytes unwritten.
C3_RelayStreamIsClientPrefix ==
  \A s \in Sessions :
    ~HasCreds(cfg) =>
      /\ IsPrefix(ToRelay(s), ClientSent(s))
      /\ sess[s].t1 = "run" => ToRelay(s) = ClientSent(s)

\* a session without credentials has forwarded two frames, a "\r\n\r\n" among them
C3_Witness ==
  /\ ~HasCreds(cfg)
  /\ Len(sess[1].cRead) = 2
  /\ sess[1].t1 = "run"
  /\ Contains(ClientSent(1), SEP)
  /\ \E i \in 1..Len(ClientSent(1)) : ClientSent(1)[i] = 255
  /\ ToRelay(1) = ClientSent(1)

\* C4: when the upstream proxy's reply to CONNECT holds no "200" (or is empty,
\* the proxy having closed), the session has ended there: no TLS handshake, no
\* relay thread, the client socket closed, nothing forwarded.
C4_RejectedConnectEndsSession ==
  \A s \in Sessions :
    (sess[s].connReply # NoReply /\ ~Contains(sess[s].connReply, T200))
      => /\ sess[s].pc = "done"
         /\ sess[s].csock = "closed"
         /\ ~sess[s].tlsTried
         /\ sess[s].t1 = "none" /\ sess[s].t2 = "none"
         /\ sess[s].rWritten = <<>> /\ sess[s].cWritten = <<>>

\* C5: once the relay->client thread of an established session has ended, the
\* client->relay thread ends too and the session closes both sockets, whatever
\* the client does.
C5_TeardownAfterRelayClose ==
  \A s \in Sessions :
    (sess[s].pc = "join" /\ sess[s].t2 = "done")
      ~> (sess[s].t1 = "done" /\ sess[s].pc = "done"
          /\ sess[s].csock = "closed" /\ sess[s].ssock = "closed")

\* C6: no socket of a session is closed twice, and a session that has ended
\* has closed its client socket once and its relay socket, if it made one, once.
C6_EachTransportClosedOnce ==
  \A s \in Sessions :
    /\ sess[s].cCloses <= 1
    /\ sess[s].sCloses <= 1
    /\ sess[s].pc = "done" =>
         /\ sess[s].csock = "closed" /\ sess[s].cCloses = 1
         /\ sess[s].ssock # "none" => (sess[s].ssock = "closed" /\ sess[s].sCloses = 1)

\* a session ended in the except clause after the TLS handshake failed
C6_Witness ==
  /\ sess[1].pc = "done"
  /\ sess[1].tlsTried
  /\ sess[1].t1 = "none"
  /\ sess[1].cCloses = 1 /\ sess[1].sCloses = 1

\* C7: sessions side by side keep to themselves.  A session's credential is
\* consumed only by a frame of its own client that holds "\r\n\r\n"; what is
\* written to its relay is made of its own client's byte, the header line and
\* line ends; what is written to its client is its own relay's bytes.
OwnClientBytes(s) == {48 + s} \cup Range(CRLF) \cup Range(CredLine)
C7_SessionsIsolated ==
  \A s \in Sessions :
    /\ sess[s].pc \in {"join", "done"} /\ sess[s].t1 # "none" =>
         (sess[s].auth_header = None <=>
            (~HasCreds(cfg) \/ \E i \in 1..Len(sess[s].cRead) : Contains(sess[s].cRead[i], SEP)))
    /\ Range(ToRelay(s)) \subseteq OwnClientBytes(s)
    /\ Range(ToClient(s)) \subseteq {64 + s}
    /\ IsPrefix(ToClient(s), RelaySent(s))

\* session 1 has sent its request with the credential while session 2, side by
\* side, still holds its own and has relayed its relay's answer
C7_Witness ==
  /\ HasCreds(cfg)
  /\ sess[1].t1 = "run" /\ sess[1].auth_header = None /\ Contains(ToRelay(1), CredLine)
  /\ sess[2].t1 = "run" /\ sess[2].auth_header # None /\ ToClient(2) = <<66>>

\* C8: a test_relay() call that has returned has left no probe socket open.
C8_ProbeTransportClosed == probe.pc = "idle" => probe.sock # "open"

\* C9: the result of every watchdog tick is what that tick's own network
\* events and the configuration call for, whatever earlier ticks did.
C9_TicksIndependent == reports = expected

\* a failing tick followed by a succeeding one: unhealthy, then healthy
C9_Witness == reports = <<FALSE, TRUE>>

\* C10: after a failed startup self-test the process has exited with status 1,
\* with no listener bound, no watchdog, no client accepted; and a listener,
\* a watchdog or an accepted client exist only after the self-test passed.
C10_FailFastStartup ==
  /\ selftest = "failed" =>
       /\ mainpc = "exited" /\ exitStatus = 1
       /\ listener = "none" /\ ~wdStarted /\ reports = <<>> /\ accepted = 0
  /\ (listener # "none" \/ wdStarted \/ accepted > 0 \/ reports # <<>>) => selftest = "passed"
  /\ selftest = "pending" => mainpc = "selftest"
  /\ exitStatus # -1 => mainpc = "exited"

\* the self-test failed and the process is gone
C10_Witness == selftest = "failed" /\ mainpc = "exited" /\ exitStatus = 1

\* C11: once the accept loop was interrupted it stays stopped and accepts no
\* client; the interrupt itself leaves every handler as it was; and after it a
\* running session's sockets are closed only by the handler's own step, with
\* both relay threads ended.
C11_GracefulShutdown ==
  [][ /\ mainpc = "stopped" => (mainpc' = "stopped" /\ accepted' = accepted /\ listener' = "closed")
      /\ mainpc # mainpc' => sess' = sess
      /\ \A s \in Sessions :
           (mainpc = "stopped" /\ sess[s].pc = "join" /\ sess'[s].pc # "join")
             => (sess[s].t1 = "done" /\ sess[s].t2 = "done") ]_vars

\* the loop was interrupted with a session in flight, which has since gone on
\* relaying and still holds both sockets
C11_Witness ==
  /\ mainpc = "stopped" /\ listener = "closed"
  /\ sess[1].pc = "join" /\ sess[1].t1 = "run" /\ sess[1].t2 = "done"
  /\ Len(sess[1].cRead) = 2 /\ sess[1].csock = "open" /\ sess[1].ssock = "open"

\* C12: with credentials configured, once the first frame from the client was
\* forwarded the credential is no longer pending, whether or not that frame
\* held "\r\n\r\n"; a first frame without it went out as read; and every later
\* frame went out as read.
C12_ConsumedOnFirstFrame ==
  \A s \in Sessions :
    (HasCreds(cfg) /\ sess[s].t1 = "run" /\ Len(sess[s].cRead) >= 1)
      => /\ sess[s].auth_header = None
         /\ ~Contains(DecodeIgnore(sess[s].cRead[1]), SEP) => sess[s].rWritten[1] = sess[s].cRead[1]
         /\ \A i \in 2..Len(sess[s].cRead) : sess[s].rWritten[i] = sess[s].cRead[i]

\* C13: with an upstream proxy configured, TLS or not, whenever bytes of the
\* client have been written on the upstream connection a CONNECT request was
\* written on it before and the reply read to it held "200".
C13_ConnectBeforeData ==
  \A s \in Sessions :
    (cfg.proxy /\ sess[s].rWritten # <<>>)
      => (IsPrefix(ConnectLine, sess[s].sent) /\ Contains(sess[s].connReply, T200))

\* C14: when the handler goes on to the TLS handshake after a CONNECT, it has
\* read the whole reply of the proxy, however many reads that took: no byte of
\* the reply is left on the socket for the handshake to read.
C14_WholeConnectReplyRead ==
  \A s \in Sessions : sess[s].tlsTried => sess[s].connLeft = <<>>

\* C15: what a handler writes to the upstream proxy as its CONNECT request
\* never holds a "Proxy-Authorization: Basic " header: the credential is not
\* disclosed to the proxy.
C15_NoCredentialInConnect ==
  \A s \in Sessions : ~Contains(sess[s].sent, AuthPrefix)

\* str with the first line "line\r\n" in it taken out
Unspliced(str, line) ==
  LET j == Find(str, line)
  IN  IF j = 0 THEN str ELSE Take(str, j - 1) \o Drop(str, j - 1 + Len(line) + Len(CRLF))

\* C16: with credentials u/p and every frame forwarded whole, taking the
\* credential line out of what was written to the relay gives back exactly
\* the bytes read from the client, bytes that are not UTF-8 included.
C16_OnlyCredentialLineAdded ==
  \A s \in Sessions :
    (UP /\ sess[s].t1 = "run") => Unspliced(ToRelay(s), CredLine) = ClientSent(s)

\* C17 as stated: in every state the bytes written to the client are exactly
\* the bytes read from the relay so far.
C17_ClientStreamEqualsRelayStream ==
  \A s \in Sessions : ToClient(s) = RelaySent(s)

\* C17 amended: the bytes written to the client are always a prefix of the
\* bytes read from the relay, and all of them as long as the relay->client
\* thread runs (they fall short only by the tail of the frame whose sendall
\* failed, which ends that thread); and no step of the relay->client thread
\* changes auth_header.
C17_ReturnPathUntouched ==
  /\ [](\A s \in Sessions :
          /\ IsPrefix(ToClient(s), RelaySent(s))
          /\ sess[s].t2 = "run" => ToClient(s) = RelaySent(s))
  /\ [][\A s \in Sessions :
          (sess[s].t2 = "run" /\ (sess'[s].rRead # sess[s].rRead \/ sess'[s].t2 # sess[s].t2))
            => sess'[s].auth_header = sess[s].auth_header]_vars

\* the relay answered with a header block while the credential was still
\* pending, and the client got it as sent
C17_Witness ==
  /\ sess[1].auth_header # None /\ sess[1].t2 = "run"
  /\ Len(sess[1].rRead) = 2 /\ Contains(RelaySent(1), SEP)
  /\ ToClient(1) = RelaySent(1)

\* C18: in a session whose relay threads were started, a socket is closed
\* only when both threads have ended; while the handler waits in the joins,
\* with one thread ended or none, both sockets are open and none was closed.
C18_CloseAfterBothPumps ==
  \A s \in Sessions :
    sess[s].t1 # "none"
      => /\ (sess[s].csock = "closed" \/ sess[s].ssock = "closed" \/ sess[s].cCloses + sess[s].sCloses > 0)
              => (sess[s].t1 = "done" /\ sess[s].t2 = "done" /\ sess[s].pc = "done")
         /\ sess[s].pc = "join" => (sess[s].csock = "open" /\ sess[s].ssock = "open")

\* a session that relayed in both directions, whose threads both ended, and
\* that has closed both sockets
C18_Witness ==
  /\ sess[1].pc = "done" /\ sess[1].t1 = "done" /\ sess[1].t2 = "done"
  /\ sess[1].cRead # <<>> /\ sess[1].rRead # <<>>
  /\ sess[1].csock = "closed" /\ sess[1].ssock = "closed"

\* C19: a step of the watchdog or of its probe, whatever the probe's outcome,
\* leaves the watchdog started, the accept loop and the listener as they were
\* and every handler untouched; a step of one handler, failing or not, leaves
\* every other handler, the accept loop, the listener and the watchdog as they
\* were.
C19_FailureContained ==
  [][ /\ probe' # probe
        => /\ sess' = sess /\ accepted' = accepted
           /\ mainpc' = mainpc /\ listener' = listener /\ exitStatus' = exitStatus
           /\ wdStarted' = wdStarted
      /\ \A s \in Sessions :
           (sess[s].pc # "idle" /\ sess'[s] # sess[s])
             => /\ \A t \in Sessions \ {s} : sess'[t] = sess[t]
                /\ UNCHANGED <<mainpc, listener, exitStatus, accepted, wdStarted, probe, reports>> ]_vars

\* the watchdog's first probe failed and its second is under way; the first
\* handler failed in its connect and closed its client, the second is relaying
C19_Witness ==
  /\ reports = <<FALSE>> /\ probe.who = "watchdog" /\ probe.pc # "idle"
  /\ wdStarted /\ mainpc = "accept" /\ listener = "bound"
  /\ sess[1].pc = "done" /\ sess[1].t1 = "none" /\ sess[1].csock = "closed"
  /\ sess[2].pc = "join" /\ sess[2].t1 = "run" /\ sess[2].t2 = "run"
  /\ sess[2].csock = "open" /\ sess[2].ssock = "open"

====
